---- MODULE Spec2Model ----
(***************************************************************************)
(* Model of PHE_FlipOptimizer (src/src/main.py): the flip calculation      *)
(* tool_phe_flip, the prompt loop get_user_input, the report print_result  *)
(* and the driver main.                                                    *)
(*                                                                         *)
(* Numbers.  A Python float is modelled as a record [k, v]:                *)
(*   [k |-> "fin", v |-> n]   the finite number n / Scale (a decimal grid  *)
(*                            of Decimals places),                         *)
(*   [k |-> "inf", v |-> s]   the infinity of sign s (1 or -1),            *)
(*   [k |-> "nan", v |-> 0]   the not-a-number.                            *)
(* Arithmetic on them follows IEEE 754 as Python exposes it: nan spreads,  *)
(* inf - inf and inf * 0 are nan, and a division by zero raises.  Finite   *)
(* results are rounded to the grid (half away from zero), as a float       *)
(* operation rounds to its own grid.  Signed zero is not modelled.         *)
(***************************************************************************)
EXTENDS Integers, Sequences, FiniteSets, TLC

\* Places after the decimal point of the grid; the report prints lengths with
\* this many places (".4f").
Decimals == 4

RECURSIVE Pow10(_)
Pow10(n) == IF n = 0 THEN 1 ELSE 10 * Pow10(n - 1)

Scale == Pow10(Decimals)

Fin(n) == [k |-> "fin", v |-> n]
NaN == [k |-> "nan", v |-> 0]
Inf(s) == [k |-> "inf", v |-> s]

IsFinite(x) == x.k = "fin"
IsNaN(x) == x.k = "nan"

\* An integer literal of the source, as a float.
Lit(n) == Fin(n * Scale)

Abs(n) == IF n < 0 THEN -n ELSE n
Sgn(n) == IF n < 0 THEN -1 ELSE IF n > 0 THEN 1 ELSE 0
Larger(a, b) == IF a >= b THEN a ELSE b
Smaller(a, b) == IF a >= b THEN b ELSE a

\* n / d rounded to the nearest integer, halves away from zero (d > 0).
RoundDiv(n, d) == Sgn(n) * ((Abs(n) + d \div 2) \div d)

\* Grid product x * y / Scale, split so that no intermediate leaves 32 bits.
MulFix(x, y) ==
    LET a == Larger(Abs(x), Abs(y))
        b == Smaller(Abs(x), Abs(y))
    IN  Sgn(x) * Sgn(y) * ((a \div Scale) * b + RoundDiv((a % Scale) * b, Scale))

\* Grid quotient x * Scale / y for y # 0, split the same way.
DivFix(x, y) ==
    LET a == Abs(x)
        b == Abs(y)
    IN  Sgn(x) * Sgn(y) * ((a \div b) * Scale + RoundDiv((a % b) * Scale, b))

\* float + float
Add(x, y) ==
    IF IsNaN(x) \/ IsNaN(y) THEN NaN
    ELSE IF x.k = "inf" THEN (IF y.k = "inf" /\ y.v # x.v THEN NaN ELSE x)
    ELSE IF y.k = "inf" THEN y
    ELSE Fin(x.v + y.v)

Neg(x) == IF IsNaN(x) THEN NaN ELSE [k |-> x.k, v |-> -x.v]

\* float - float
Sub(x, y) == Add(x, Neg(y))

\* float * float
Mul(x, y) ==
    IF IsNaN(x) \/ IsNaN(y) THEN NaN
    ELSE IF x.k = "inf" \/ y.k = "inf"
         THEN (IF x.v = 0 \/ y.v = 0 THEN NaN ELSE Inf(Sgn(x.v) * Sgn(y.v)))
    ELSE Fin(MulFix(x.v, y.v))

\* A float division raises ZeroDivisionError exactly when the divisor is zero,
\* whatever the dividend is.
DivRaises(x, y) == IsFinite(y) /\ y.v = 0

\* float / float where DivRaises is false.
Div(x, y) ==
    IF IsNaN(x) \/ IsNaN(y) THEN NaN
    ELSE IF x.k = "inf" THEN (IF y.k = "inf" THEN NaN ELSE Inf(x.v * Sgn(y.v)))
    ELSE IF y.k = "inf" THEN Fin(0)
    ELSE Fin(DivFix(x.v, y.v))

\* x < y and x <= y as Python compares floats: false whenever a nan is involved.
Lt(x, y) ==
    /\ ~IsNaN(x) /\ ~IsNaN(y)
    /\ IF x.k = "inf" THEN x.v = -1 /\ y # x
       ELSE IF y.k = "inf" THEN y.v = 1
       ELSE x.v < y.v
Le(x, y) == ~IsNaN(x) /\ ~IsNaN(y) /\ (x = y \/ Lt(x, y))

(***************************************************************************)
(* The math library on the grid.  pi is the grid number nearest to pi;     *)
(* sin and cos are their Taylor polynomials in Horner form, asin is the    *)
(* inverse of that sin found by bisection, with asin(1) = pi/2.            *)
(***************************************************************************)
HalfPi == 15708
Pi == 2 * HalfPi

\* 1 - q / d, the step of the Horner forms below (q = x*x*inner on the grid).
HornerStep(xx, d, inner) == Scale - RoundDiv(MulFix(xx, inner), d)

SinFix(x) ==
    LET xx == MulFix(x, x)
        t11 == HornerStep(xx, 110, Scale)
        t9 == HornerStep(xx, 72, t11)
        t7 == HornerStep(xx, 42, t9)
        t5 == HornerStep(xx, 20, t7)
        t3 == HornerStep(xx, 6, t5)
    IN  MulFix(x, t3)

CosFix(x) ==
    LET xx == MulFix(x, x)
        t12 == HornerStep(xx, 132, Scale)
        t10 == HornerStep(xx, 90, t12)
        t8 == HornerStep(xx, 56, t10)
        t6 == HornerStep(xx, 30, t8)
        t4 == HornerStep(xx, 12, t6)
    IN  HornerStep(xx, 2, t4)

RECURSIVE AsinSearch(_, _, _)
AsinSearch(x, lo, hi) ==
    IF lo >= hi THEN lo
    ELSE LET mid == (lo + hi) \div 2
         IN  IF SinFix(mid) < x THEN AsinSearch(x, mid + 1, hi)
             ELSE AsinSearch(x, lo, mid)

AsinFix(x) ==
    IF Abs(x) = Scale THEN Sgn(x) * HalfPi
    ELSE Sgn(x) * AsinSearch(Abs(x), 0, HalfPi)

\* math.asin raises ValueError ("math domain error") outside [-1, 1], the
\* infinities included; a nan goes through.
AsinRaises(x) == x.k = "inf" \/ (IsFinite(x) /\ Abs(x.v) > Scale)

\* math.asin where AsinRaises is false.
Asin(x) == IF IsNaN(x) THEN NaN ELSE Fin(AsinFix(x.v))

\* math.degrees: x * (180 / pi).
Degrees(x) == IF IsFinite(x) THEN Fin(DivFix(180 * x.v, Pi)) ELSE x

\* math.radians: x * (pi / 180).
Radians(x) == IF IsFinite(x) THEN Fin(RoundDiv(MulFix(x.v, Pi), 180)) ELSE x

\* math.tan raises ValueError on an infinity; a nan goes through.
TanRaises(x) == x.k = "inf"

\* math.tan where TanRaises is false.  The float pi/2 lies just below the real
\* pi/2, so the tangent there is huge and finite with the sign of the angle,
\* not an error: a cosine that rounds to zero or below counts as the smallest
\* grid step.
Tan(x) ==
    IF IsNaN(x) THEN NaN
    ELSE LET c == CosFix(Abs(x.v))
         IN  Fin(Sgn(x.v) * DivFix(SinFix(Abs(x.v)), IF c <= 0 THEN 1 ELSE c))

(***************************************************************************)
(* tool_phe_flip, lines 30-94.                                             *)
(***************************************************************************)
Keys == {"spacing_a", "spacing_b", "length", "width", "thinkness", "fillet_radius"}

\* Hypotenuse with the thickness term forgotten.
HypotenuseNoThickness(spacing_a, spacing_b, thinkness) == Add(spacing_a, spacing_b)

\* Lines 72-78, one operator per assignment.
Opposite(thinkness) == Mul(Lit(2), thinkness)
Hypotenuse(spacing_a, spacing_b, thinkness) ==
    Add(Add(spacing_a, spacing_b), Mul(Lit(2), thinkness))
AngleOf(ratio) == Degrees(Asin(ratio))
HypotenuseMin(spacing_a, thinkness, hypotenuse) ==
    Sub(Add(spacing_a, thinkness), Div(hypotenuse, Lit(2)))
OffsetOf(hypotenuse_min, angle) == Mul(hypotenuse_min, Tan(Radians(angle)))

\* ResultOf with the offset taken off the length once, not on both sides.
ResultOfOneSide(p, offset, angle) ==
    [offset |-> offset,
     angle |-> angle,
     flip_angle |-> Add(Lit(90), angle),
     draft_angle |-> angle,
     length |-> Sub(p.length, offset),
     width |-> Sub(p.width, Mul(Lit(2), offset)),
     fillet_radius |-> Sub(p.fillet_radius, offset)]

\* Lines 80-94: the dictionary returned for the arguments p.
ResultOf(p, offset, angle) ==
    [offset |-> offset,
     angle |-> angle,
     flip_angle |-> Add(Lit(90), angle),
     draft_angle |-> angle,
     length |-> Sub(p.length, Mul(Lit(2), offset)),
     width |-> Sub(p.width, Mul(Lit(2), offset)),
     fillet_radius |-> Sub(p.fillet_radius, offset)]

\* A call that raised: its arguments and the exception.
Raise(p, exception) == [args |-> p, status |-> exception]

\* One call of tool_phe_flip as its caller sees it: the arguments, how it ended
\* ("ok" or the exception raised by the division or math.asin on line 74, or
\* by math.tan on line 78), and, when it returned, the result and the frame
\* (the intermediate values of lines 72-78).
ToolPheFlip(p) ==
    LET opposite == Opposite(p.thinkness)
        hypotenuse == Hypotenuse(p.spacing_a, p.spacing_b, p.thinkness)
        ratio == Div(opposite, hypotenuse)
        angle == AngleOf(ratio)
        hypotenuse_min == HypotenuseMin(p.spacing_a, p.thinkness, hypotenuse)
        offset == OffsetOf(hypotenuse_min, angle)
    IN  IF DivRaises(opposite, hypotenuse) THEN Raise(p, "ZeroDivisionError")
        ELSE IF AsinRaises(ratio) THEN Raise(p, "ValueError")
        ELSE IF TanRaises(Radians(angle)) THEN Raise(p, "ValueError")
        ELSE [args |-> p,
              status |-> "ok",
              result |-> ResultOf(p, offset, angle),
              frame |-> [opposite |-> opposite,
                         hypotenuse |-> hypotenuse,
                         ratio |-> ratio,
                         hypotenuse_min |-> hypotenuse_min]]

(***************************************************************************)
(* get_user_input, lines 110-131: what float() makes of a typed line.  A   *)
(* line is a sequence of characters.  float() strips blanks, takes a sign, *)
(* then "nan", "inf", "infinity" or a decimal numeral; anything else is a  *)
(* ValueError.  Exponents, underscores and capitals are left out: no line  *)
(* of the model uses them.                                                 *)
(***************************************************************************)
Digits == <<"0", "1", "2", "3", "4", "5", "6", "7", "8", "9">>
IsDigit(c) == \E i \in 1..Len(Digits) : Digits[i] = c
DigitVal(c) == (CHOOSE i \in 1..Len(Digits) : Digits[i] = c) - 1

RECURSIVE LStrip(_)
LStrip(s) == IF s # <<>> /\ Head(s) = " " THEN LStrip(Tail(s)) ELSE s

RECURSIVE RStrip(_)
RStrip(s) ==
    IF s # <<>> /\ s[Len(s)] = " " THEN RStrip(SubSeq(s, 1, Len(s) - 1)) ELSE s

Strip(s) == RStrip(LStrip(s))

\* The value of a run of digits.
RECURSIVE IntOf(_)
IntOf(ds) ==
    IF ds = <<>> THEN 0
    ELSE 10 * IntOf(SubSeq(ds, 1, Len(ds) - 1)) + DigitVal(ds[Len(ds)])

\* The position of the first "." in s, or Len(s) + 1.
RECURSIVE DotAt(_, _)
DotAt(s, i) == IF i > Len(s) \/ s[i] = "." THEN i ELSE DotAt(s, i + 1)

IntPart(s) == SubSeq(s, 1, DotAt(s, 1) - 1)
FracPart(s) == SubSeq(s, DotAt(s, 1) + 1, Len(s))

\* digits [ "." digits ] with a digit on one side at least.
IsDecimal(s) ==
    /\ \A i \in 1..Len(IntPart(s)) : IsDigit(IntPart(s)[i])
    /\ \A i \in 1..Len(FracPart(s)) : IsDigit(FracPart(s)[i])
    /\ Len(IntPart(s)) + Len(FracPart(s)) > 0

\* The grid value of a decimal numeral; digits past the grid are dropped.
DecimalValue(s) ==
    LET f == SubSeq(FracPart(s), 1, Smaller(Len(FracPart(s)), Decimals))
    IN  IntOf(IntPart(s)) * Scale + IntOf(f) * Pow10(Decimals - Len(f))

\* float(s): [ok |-> TRUE, val |-> the float] or [ok |-> FALSE] for ValueError.
ParseFloat(s) ==
    LET t == Strip(s)
        signed == t # <<>> /\ t[1] \in {"+", "-"}
        sign == IF signed /\ t[1] = "-" THEN -1 ELSE 1
        body == IF signed THEN Tail(t) ELSE t
    IN  IF body = <<"n", "a", "n">> THEN [ok |-> TRUE, val |-> NaN]
        ELSE IF body \in {<<"i", "n", "f">>, <<"i", "n", "f", "i", "n", "i", "t", "y">>}
             THEN [ok |-> TRUE, val |-> Inf(sign)]
        ELSE IF IsDecimal(body)
             THEN [ok |-> TRUE, val |-> Fin(sign * DecimalValue(body))]
        ELSE [ok |-> FALSE, val |-> NaN]

(***************************************************************************)
(* print_result, lines 134-156.                                            *)
(***************************************************************************)
\* format(x, ".<places>f"): nan and inf print as such, a finite number is
\* rounded to the given places.
FormatFloat(x, places) ==
    IF IsFinite(x)
    THEN [k |-> "fin", v |-> RoundDiv(x.v, Pow10(Decimals - places)), places |-> places]
    ELSE [k |-> x.k, v |-> x.v, places |-> places]

\* A printed line: what it shows, and the formatted number in it if any.
NoNumber == [k |-> "text", v |-> 0, places |-> 0]
TextLine(what) == [field |-> what, shown |-> NoNumber]
NumberLine(what, x, places) == [field |-> what, shown |-> FormatFloat(x, places)]

\* ReportLines with the fillet radius line forgotten.
ReportLinesNoFillet(result) ==
    << TextLine("rule"),
       TextLine("heading"),
       NumberLine("offset", result.offset, 4),
       NumberLine("flip_angle", result.flip_angle, 2),
       NumberLine("draft_angle", result.draft_angle, 2),
       NumberLine("length", result.length, 4),
       NumberLine("width", result.width, 4),
       TextLine("rule"),
       TextLine("byline") >>

\* The lines print_result writes for a result, in order.
ReportLines(result) ==
    << TextLine("rule"),
       TextLine("heading"),
       NumberLine("offset", result.offset, 4),
       NumberLine("flip_angle", result.flip_angle, 2),
       NumberLine("draft_angle", result.draft_angle, 2),
       NumberLine("length", result.length, 4),
       NumberLine("width", result.width, 4),
       NumberLine("fillet_radius", result.fillet_radius, 4),
       TextLine("rule"),
       TextLine("byline") >>

(***************************************************************************)
(* main, lines 159-183.                                                    *)
(***************************************************************************)
\* ParamSpec with the thickness asked third, before the length.
ParamSpecThicknessThird ==
    << [key |-> "spacing_a", prompt |-> "A-side spacing (mm)"],
       [key |-> "spacing_b", prompt |-> "B-side spacing (mm)"],
       [key |-> "thinkness", prompt |-> "plate thickness (mm)"],
       [key |-> "length", prompt |-> "plate length (mm)"],
       [key |-> "width", prompt |-> "plate width (mm)"],
       [key |-> "fillet_radius", prompt |-> "fillet radius (mm)"] >>

\* The dictionary display of lines 166-173: the key each prompt fills, in the
\* order the prompts are evaluated.
ParamSpec ==
    << [key |-> "spacing_a", prompt |-> "A-side spacing (mm)"],
       [key |-> "spacing_b", prompt |-> "B-side spacing (mm)"],
       [key |-> "length", prompt |-> "plate length (mm)"],
       [key |-> "width", prompt |-> "plate width (mm)"],
       [key |-> "thinkness", prompt |-> "plate thickness (mm)"],
       [key |-> "fillet_radius", prompt |-> "fillet radius (mm)"] >>

\* The prompt of the pause on line 182.
PausePrompt == "press any key to exit"

\* The dictionary built from the values the prompts returned, in order.
ParamsFrom(values) ==
    [key \in Keys |->
        values[CHOOSE i \in 1..Len(ParamSpec) : ParamSpec[i].key = key]]

\* AfterCall with a failed call sent back to the prompts.
AfterCallRetry(call) == IF call.status = "ok" THEN "print" ELSE "prompt"

\* Where main goes after the call on line 176: on to the report when the call
\* returned; an exception is caught nowhere and ends the program.
AfterCall(call) == IF call.status = "ok" THEN "print" ELSE "crashed"

\* AfterParse with the ValueError swallowed and the value returned anyway.
AfterParseLenient(parsed) == "return"

\* Where get_user_input goes after float() on line 129: it returns the value,
\* or prints the complaint on line 131 and loops.
AfterParse(parsed) == IF parsed.ok THEN "return" ELSE "retry"

\* The lines a user may type: numerals, and two lines float() rejects.
Numerals == { <<"1">>, <<" ", "0", " ">>, <<"-", "3">>, <<"n", "a", "n">> }
Malformed == { <<"1", "x">>, <<>> }

\* The lines tried at the prompt for a key: every numeral where the value
\* decides how the call ends, fewer at the other prompts.
EntriesFor(key) ==
    Malformed \cup
    (IF key \in {"spacing_a", "spacing_b", "thinkness"} THEN Numerals
     ELSE IF key = "length" THEN { <<"1">>, <<"n", "a", "n">> }
     ELSE { <<"1">> })

\* How many malformed lines a run may type, all prompts together.
MaxBad == 2

VARIABLES
    pc,        \* where main is: "banner", "prompt", "read", "call", "print",
               \* "pause", "key", "done", "crashed" ("harness" outside main)
    idx,       \* the entry of ParamSpec being asked for
    entry,     \* the line typed last
    accepted,  \* the values get_user_input has returned so far, in order
    params,    \* the dictionary of line 166 once built
    calls,     \* the calls of tool_phe_flip so far, each as ToolPheFlip gives it
    out,       \* the lines printed so far
    prompts,   \* the prompts written so far
    bad,       \* the malformed lines typed so far
    exc        \* the exception that ended the program, or "none"

vars == <<pc, idx, entry, accepted, params, calls, out, prompts, bad, exc>>

NoParams == [key \in Keys |-> NaN]

Init ==
    /\ pc = "banner"
    /\ idx = 1
    /\ entry = <<>>
    /\ accepted = <<>>
    /\ params = NoParams
    /\ calls = <<>>
    /\ out = <<>>
    /\ prompts = <<>>
    /\ bad = 0
    /\ exc = "none"

\* Lines 160-163.
Banner ==
    /\ pc = "banner"
    /\ out' = out \o << TextLine("rule"), TextLine("title"), TextLine("rule"),
                        TextLine("enter parameters") >>
    /\ pc' = "prompt"
    /\ UNCHANGED <<idx, entry, accepted, params, calls, prompts, bad, exc>>

\* Line 128: input() writes the prompt and waits for a line.
Prompt ==
    /\ pc = "prompt"
    /\ prompts' = Append(prompts, ParamSpec[idx].prompt)
    /\ pc' = "read"
    /\ UNCHANGED <<idx, entry, accepted, params, calls, out, bad, exc>>

\* Lines 128-131: the line e arrives and float() is applied to it.
Enter(e) ==
    /\ pc = "read"
    /\ LET parsed == ParseFloat(e)
       IN
        /\ AfterParse(parsed) = "retry" => bad < MaxBad
        /\ entry' = e
        /\ IF AfterParse(parsed) = "return"
           THEN /\ accepted' = Append(accepted, parsed.val)
                /\ idx' = IF idx < Len(ParamSpec) THEN idx + 1 ELSE idx
                /\ pc' = IF idx < Len(ParamSpec) THEN "prompt" ELSE "call"
                /\ UNCHANGED <<out, bad>>
           ELSE /\ out' = Append(out, TextLine("invalid input"))
                /\ bad' = bad + 1
                /\ pc' = "prompt"
                /\ UNCHANGED <<accepted, idx>>
        /\ UNCHANGED <<params, calls, prompts, exc>>

\* input() meets the end of its input: EOFError, which nothing catches.
EndOfInput ==
    /\ pc \in {"read", "key"}
    /\ exc' = "EOFError"
    /\ pc' = "crashed"
    /\ UNCHANGED <<idx, entry, accepted, params, calls, out, prompts, bad>>

\* Lines 166-176: the dictionary is built and tool_phe_flip is called on it.
CallTool ==
    /\ pc = "call"
    /\ LET call == ToolPheFlip(ParamsFrom(accepted))
       IN
        /\ params' = ParamsFrom(accepted)
        /\ calls' = Append(calls, call)
        /\ pc' = AfterCall(call)
        /\ exc' = IF AfterCall(call) = "crashed" THEN call.status ELSE exc
        /\ UNCHANGED <<idx, entry, accepted, out, prompts, bad>>

\* Line 179.
PrintResult ==
    /\ pc = "print"
    /\ out' = out \o ReportLines(calls[Len(calls)].result)
    /\ pc' = "pause"
    /\ UNCHANGED <<idx, entry, accepted, params, calls, prompts, bad, exc>>

\* Line 182: the pause prompt is written and main waits for a line.
Pause ==
    /\ pc = "pause"
    /\ prompts' = Append(prompts, PausePrompt)
    /\ pc' = "key"
    /\ UNCHANGED <<idx, entry, accepted, params, calls, out, bad, exc>>

\* Line 182: any line ends the pause; it is dropped, and main returns.
KeyPressed ==
    /\ pc = "key"
    /\ pc' = "done"
    /\ UNCHANGED <<idx, entry, accepted, params, calls, out, prompts, bad, exc>>

Next ==
    \/ Banner
    \/ Prompt
    \/ \E e \in EntriesFor(ParamSpec[idx].key) : Enter(e)
    \/ EndOfInput
    \/ CallTool
    \/ PrintResult
    \/ Pause
    \/ KeyPressed

Spec == Init /\ [][Next]_vars

(***************************************************************************)
(* tool_phe_flip on its own: a caller that calls it on arguments drawn     *)
(* from a bounded set, then on the same arguments with the two spacings    *)
(* exchanged.                                                              *)
(***************************************************************************)
\* The largest whole spacing or thickness drawn; values go in halves.
MaxVal == 2

\* The smallest positive number of the grid.  Beside the others it is what a
\* positive float far below them is (1e-20 beside 1): a quotient with it
\* rounds.
Tiny == Fin(1)

\* The spacings and thicknesses drawn: the halves from -2 to MaxVal, the
\* smallest positive number, nan and inf.
FnNumbers ==
    {Fin(h * (Scale \div 2)) : h \in -4..(2 * MaxVal)} \cup {Tiny, NaN, Inf(1)}

FnInputs ==
    {[spacing_a |-> a, spacing_b |-> b, length |-> l, width |-> Lit(50),
      thinkness |-> t, fillet_radius |-> f] :
        a \in FnNumbers, b \in FnNumbers, t \in FnNumbers,
        l \in {Lit(100), Inf(1)}, f \in {Lit(3), Lit(0)}}

\* The arguments with spacing_a and spacing_b exchanged.
Swapped(p) == [p EXCEPT !.spacing_a = p.spacing_b, !.spacing_b = p.spacing_a]

InitFn ==
    /\ pc = "harness"
    /\ idx = 1
    /\ entry = <<>>
    /\ accepted = <<>>
    /\ params \in FnInputs
    /\ calls = <<>>
    /\ out = <<>>
    /\ prompts = <<>>
    /\ bad = 0
    /\ exc = "none"

FnCall ==
    /\ pc = "harness"
    /\ Len(calls) = 0
    /\ calls' = Append(calls, ToolPheFlip(params))
    /\ UNCHANGED <<pc, idx, entry, accepted, params, out, prompts, bad, exc>>

FnCallSwapped ==
    /\ pc = "harness"
    /\ Len(calls) = 1
    /\ calls' = Append(calls, ToolPheFlip(Swapped(params)))
    /\ UNCHANGED <<pc, idx, entry, accepted, params, out, prompts, bad, exc>>

NextFn == FnCall \/ FnCallSwapped

SpecFn == InitFn /\ [][NextFn]_vars

(***************************************************************************)
(* Properties.                                                             *)
(***************************************************************************)
Calls == {calls[i] : i \in 1..Len(calls)}
Returned == {c \in Calls : c.status = "ok"}
Failed == \E c \in Calls : c.status # "ok"

Positive(x) == IsFinite(x) /\ x.v > 0

\* Inputs as the data model wants them: six positive real numbers.
ValidInputs(p) == \A key \in Keys : Positive(p[key])

\* max(x, y) of Python.
FMax(x, y) == IF Lt(x, y) THEN y ELSE x

ResultFields ==
    {"offset", "angle", "flip_angle", "draft_angle", "length", "width",
     "fillet_radius"}

PrintedFields == {out[i].field : i \in 1..Len(out)}

\* The prompts written, a prompt repeated in a row counted once.
RECURSIVE Asked(_)
Asked(ps) ==
    IF Len(ps) <= 1 THEN ps
    ELSE LET front == Asked(SubSeq(ps, 1, Len(ps) - 1))
         IN  IF ps[Len(ps)] = ps[Len(ps) - 1] THEN front
             ELSE Append(front, ps[Len(ps)])

PauseReached == prompts # <<>> /\ prompts[Len(prompts)] = PausePrompt

\* C1: a call with spacing_a and spacing_b exchanged returns the same offset
\* and the same angle as the call it is compared with, for valid inputs.
C1_SwapSymmetry ==
    (/\ Len(calls) = 2
     /\ ValidInputs(calls[1].args)
     /\ calls[2].args = Swapped(calls[1].args)
     /\ calls[1].status = "ok"
     /\ calls[2].status = "ok")
    => /\ calls[1].result.offset = calls[2].result.offset
       /\ calls[1].result.angle = calls[2].result.angle

\* C2: the value multiplied by tan(angle) is max(spacingA, spacingB) +
\* thickness - hypotenuse / 2, so that twice it is |spacingA - spacingB|.
C2_HypotenuseMinIsMax ==
    \A c \in Returned :
        ValidInputs(c.args) =>
            /\ c.frame.hypotenuse_min =
                 Sub(Add(FMax(c.args.spacing_a, c.args.spacing_b), c.args.thinkness),
                     Div(c.frame.hypotenuse, Lit(2)))
            /\ 2 * c.frame.hypotenuse_min.v =
                 Abs(c.args.spacing_a.v - c.args.spacing_b.v)

\* C3: a call returns a result only when the hypotenuse is not zero, the sine
\* argument is in [-1, 1] and every field of the result is finite; otherwise
\* it ends in an error.
C3_DomainFailure ==
    \A c \in Returned :
        /\ c.frame.hypotenuse # Lit(0)
        /\ Le(Lit(-1), c.frame.ratio) /\ Le(c.frame.ratio, Lit(1))
        /\ \A f \in ResultFields : IsFinite(c.result[f])

\* C4: tool_phe_flip is called at most once in a run, and once a call has
\* failed nothing of the report is printed, no prompt is written and no call
\* is made any more.
C4_FailureIsTerminal ==
    /\ [](Len(calls) <= 1)
    /\ [](Failed => PrintedFields \cap ResultFields = {})
    /\ [][Failed => UNCHANGED <<out, prompts, calls>>]_vars

C4_Witness ==
    /\ Failed
    /\ pc = "crashed"
    /\ exc = "ValueError"
    /\ Len(prompts) = Len(ParamSpec)

\* C5: every result returned has flip_angle = 90 + angle, draft_angle = angle,
\* length = input length - 2 * offset, width = input width - 2 * offset and
\* fillet_radius = input fillet_radius - offset (a nan equal to a nan).
C5_FieldRelations ==
    \A c \in Returned :
        /\ c.result.flip_angle = Add(Lit(90), c.result.angle)
        /\ c.result.draft_angle = c.result.angle
        /\ c.result.length = Sub(c.args.length, Mul(Lit(2), c.result.offset))
        /\ c.result.width = Sub(c.args.width, Mul(Lit(2), c.result.offset))
        /\ c.result.fillet_radius = Sub(c.args.fillet_radius, c.result.offset)

C5_Witness ==
    \E c \in Returned :
        /\ ValidInputs(c.args)
        /\ IsFinite(c.result.offset) /\ c.result.offset.v > 0
        /\ c.result.length.v < c.args.length.v

\* C7 as claimed: the prompts come in the order A-side spacing, B-side
\* spacing, thickness, length, width, fillet radius, and the k-th value
\* accepted is the k-th parameter of that order in the call.
ClaimedOrder ==
    << [key |-> "spacing_a", prompt |-> "A-side spacing (mm)"],
       [key |-> "spacing_b", prompt |-> "B-side spacing (mm)"],
       [key |-> "thinkness", prompt |-> "plate thickness (mm)"],
       [key |-> "length", prompt |-> "plate length (mm)"],
       [key |-> "width", prompt |-> "plate width (mm)"],
       [key |-> "fillet_radius", prompt |-> "fillet radius (mm)"] >>

\* The order of the source: the thickness comes fifth, after the width.
SourceOrder ==
    << [key |-> "spacing_a", prompt |-> "A-side spacing (mm)"],
       [key |-> "spacing_b", prompt |-> "B-side spacing (mm)"],
       [key |-> "length", prompt |-> "plate length (mm)"],
       [key |-> "width", prompt |-> "plate width (mm)"],
       [key |-> "thinkness", prompt |-> "plate thickness (mm)"],
       [key |-> "fillet_radius", prompt |-> "fillet radius (mm)"] >>

\* The prompts so far follow the order, and every call made binds the k-th
\* accepted value to the k-th key of the order.
FollowsOrder(order) ==
    /\ \A k \in 1..Len(Asked(prompts)) :
           k <= Len(order) => Asked(prompts)[k] = order[k].prompt
    /\ \A i \in 1..Len(calls) :
           /\ Len(accepted) = Len(order)
           /\ \A k \in 1..Len(order) : calls[i].args[order[k].key] = accepted[k]

C7_ClaimedPromptOrder == FollowsOrder(ClaimedOrder)

\* C7 as amended: the prompts come in the order A-side spacing, B-side
\* spacing, length, width, thickness, fillet radius, and the k-th value
\* accepted is the k-th parameter of that order in the call.
C7_SourcePromptOrder == FollowsOrder(SourceOrder)

C7_Witness ==
    /\ Len(calls) = 1
    /\ bad > 0
    /\ accepted[3] # accepted[5]
    /\ calls[1].args.thinkness = accepted[5]

\* C8: a line float() rejects is neither fatal nor accepted: main stays at the
\* same parameter and writes its prompt again; the prompt that waits is always
\* that of the first parameter without a value, and tool_phe_flip is called
\* only when all six have one.
C8_Reprompt ==
    /\ [][(pc = "read" /\ exc' # "EOFError" /\ entry' \in Malformed)
            => /\ pc' = "prompt"
               /\ idx' = idx
               /\ accepted' = accepted
               /\ calls' = calls
               /\ exc' = "none"]_vars
    /\ [](pc = "read" =>
            /\ Len(accepted) < Len(SourceOrder)
            /\ prompts[Len(prompts)] = SourceOrder[Len(accepted) + 1].prompt)
    /\ [](calls # <<>> => Len(accepted) = Len(SourceOrder))

C8_Witness ==
    /\ pc = "read"
    /\ Len(accepted) = 2
    /\ Len(prompts) = 5
    /\ prompts[3] = prompts[4] /\ prompts[4] = prompts[5]
    /\ out[Len(out)].field = "invalid input"
    /\ out[Len(out) - 1].field = "invalid input"

\* C9 as claimed: when the pause is reached after a call that returned, all
\* seven fields of the result have been printed.
C9_AllSevenPrinted ==
    (PauseReached /\ Returned # {}) => ResultFields \subseteq PrintedFields

\* C9 as amended: when the pause is reached the call has returned and six
\* fields of its result have been printed, each once and formatted: offset,
\* length, width and fillet_radius to 4 places, flip_angle and draft_angle to
\* 2; the field angle has no line of its own.  After the pause main ends.
ReportedFields ==
    {"offset", "flip_angle", "draft_angle", "length", "width", "fillet_radius"}

C9_SixPrinted ==
    /\ PauseReached =>
         /\ Len(calls) = 1 /\ calls[1].status = "ok"
         /\ \A f \in ReportedFields :
              /\ Cardinality({i \in 1..Len(out) : out[i].field = f}) = 1
              /\ \E i \in 1..Len(out) :
                   /\ out[i].field = f
                   /\ out[i].shown =
                        FormatFloat(calls[1].result[f],
                                    IF f \in {"flip_angle", "draft_angle"} THEN 2 ELSE 4)
         /\ "angle" \notin PrintedFields
         /\ pc \in {"key", "done", "crashed"}
    /\ (Returned # {} /\ pc \in {"pause", "key", "done"}) =>
         ReportedFields \subseteq PrintedFields

C9_Witness ==
    /\ pc = "done"
    /\ PauseReached
    /\ Returned # {}
    /\ \E i \in 1..Len(out) :
          out[i].field = "flip_angle" /\ out[i].shown.k = "fin" /\ out[i].shown.v > 9000

PositiveCalls ==
    {c \in Calls : /\ Positive(c.args.spacing_a)
                   /\ Positive(c.args.spacing_b)
                   /\ Positive(c.args.thinkness)}

\* C10 as claimed: for strictly positive spacing_a, spacing_b and thinkness
\* the call returns, whatever the other three arguments are, with the sine
\* argument strictly between 0 and 1, 0 < angle < 90 and 90 < flip_angle < 180.
C10_StrictlyInside ==
    \A c \in PositiveCalls :
        /\ c.status = "ok"
        /\ Lt(Lit(0), c.frame.ratio) /\ Lt(c.frame.ratio, Lit(1))
        /\ Lt(Lit(0), c.result.angle) /\ Lt(c.result.angle, Lit(90))
        /\ Lt(Lit(90), c.result.flip_angle) /\ Lt(c.result.flip_angle, Lit(180))

\* C10 as amended: for finite, strictly positive spacing_a, spacing_b and
\* thinkness the call returns, whatever the other three arguments are, with
\* the sine argument in [0, 1], 0 <= angle <= 90 and 90 <= flip_angle <= 180;
\* the angle is strictly above 0 and strictly below 90 unless the quotient
\* was rounded to 0 or to 1.
C10_PositiveInputs ==
    \A c \in PositiveCalls :
        /\ c.status = "ok"
        /\ Le(Lit(0), c.frame.ratio) /\ Le(c.frame.ratio, Lit(1))
        /\ Le(Lit(0), c.result.angle) /\ Le(c.result.angle, Lit(90))
        /\ Le(Lit(90), c.result.flip_angle) /\ Le(c.result.flip_angle, Lit(180))
        /\ Lt(Lit(0), c.frame.ratio) => Lt(Lit(0), c.result.angle)
        /\ Lt(c.frame.ratio, Lit(1)) => Lt(c.result.angle, Lit(90))

C10_Witness ==
    \E c \in PositiveCalls :
        /\ c.status = "ok"
        /\ c.args.spacing_a # c.args.spacing_b
        /\ c.args.length = Inf(1)
        /\ Lt(Lit(0), c.result.angle) /\ Lt(c.result.angle, Lit(90))

====
